---- MODULE Spec2Model ----
(***************************************************************************)
(* Analytics dashboard of HappyRobotFrontend: the Dashboard component      *)
(* fetches the negotiation logs, keeps a search term, and derives the      *)
(* filtered table, the summary statistics and the three chart tables.      *)
(*                                                                         *)
(* Strings are tuples of one-character strings, so that toLowerCase,       *)
(* includes and replace are computed character by character.               *)
(***************************************************************************)
EXTENDS Integers, Sequences, FiniteSets, TLC

VARIABLES upstream, status, logs, searchTerm, filteredLogs, stats, chartData

\* The handler of GET /api/logs, for one request at a time: where it stands,
\* what its fetch of the data source gave, and the responses it has sent.
VARIABLES proxyPc, proxyUp, proxyRes

proxyVars == <<proxyPc, proxyUp, proxyRes>>

\* The data source and the query: whether the source answers 200, the
\* query's fetchStatus, whether it ever got data, how many calls of queryFn
\* the current fetch has issued, how many fetches brought data; and what
\* the component shows.
VARIABLES health, fetching, hasData, attempts, dataUpdateCount, screen

queryVars == <<health, fetching, hasData, attempts, dataUpdateCount>>

derived == <<filteredLogs, stats, chartData>>

vars == <<upstream, status, logs, searchTerm, filteredLogs, stats, chartData, proxyVars,
          queryVars, screen>>

(***************************************************************************)
(* Bounds of the model.                                                    *)
(***************************************************************************)
MaxLogs == 3
MaxTermLen == 3
MaxFetches == 2

(***************************************************************************)
(* String primitives of the JavaScript runtime used by the component.      *)
(***************************************************************************)
UpperToLower ==
  [A |-> "a", B |-> "b", C |-> "c", D |-> "d", E |-> "e", F |-> "f",
   G |-> "g", H |-> "h", I |-> "i", J |-> "j", K |-> "k", L |-> "l",
   M |-> "m", N |-> "n", O |-> "o", P |-> "p", Q |-> "q", R |-> "r",
   S |-> "s", T |-> "t", U |-> "u", V |-> "v", W |-> "w", X |-> "x",
   Y |-> "y", Z |-> "z"]

\* String.prototype.toLowerCase
toLowerCase(s) ==
  [i \in 1..Len(s) |-> IF s[i] \in DOMAIN UpperToLower THEN UpperToLower[s[i]] ELSE s[i]]

\* String.prototype.includes
includes(hay, needle) ==
  \E i \in 0..(Len(hay) - Len(needle)) : SubSeq(hay, i + 1, i + Len(needle)) = needle

\* String.prototype.replace(pattern, replacement) with a string pattern of one
\* character: only the first occurrence is replaced.
replace(s, pat, rep) ==
  IF \E i \in 1..Len(s) : s[i] = pat
    THEN LET first == CHOOSE i \in 1..Len(s) : s[i] = pat /\ \A j \in 1..(i - 1) : s[j] # pat
         IN  [s EXCEPT ![first] = rep]
    ELSE s

(***************************************************************************)
(* LogData and the two closed enumerations.                                *)
(***************************************************************************)
Accepted    == <<"a", "c", "c", "e", "p", "t", "e", "d">>
Declined    == <<"d", "e", "c", "l", "i", "n", "e", "d">>
NoAgreement == <<"n", "o", "_", "a", "g", "r", "e", "e", "m", "e", "n", "t">>
Positive    == <<"p", "o", "s", "i", "t", "i", "v", "e">>
Neutral     == <<"n", "e", "u", "t", "r", "a", "l">>
Negative    == <<"n", "e", "g", "a", "t", "i", "v", "e">>

Outcomes   == {Accepted, Declined, NoAgreement}
Sentiments == {Positive, Neutral, Negative}

\* created_at: an ISO 8601 timestamp with an explicit UTC offset, to the hour.
Stamp(y, mo, d, h, off) == [y |-> y, mo |-> mo, d |-> d, h |-> h, off |-> off]

LogData(mc, load, rate, o, s, rounds, at) ==
  [id |-> 0, mc_number |-> mc, load_id |-> load, final_rate |-> rate, outcome |-> o,
   sentiment |-> s, rounds |-> rounds, notes |-> <<>>, created_at |-> at]

\* ids are unique within a batch: the position of the record in the response.
Batch(recs) == [i \in 1..Len(recs) |-> [recs[i] EXCEPT !.id = i]]

(***************************************************************************)
(* filteredLogs: the callback of the first useMemo.                        *)
(***************************************************************************)
FilteredLogsEmptyTermDrops(l, term) ==
  IF term = <<>> THEN <<>>
  ELSE SelectSeq(l, LAMBDA log :
         \/ includes(toLowerCase(log.mc_number), toLowerCase(term))
         \/ includes(toLowerCase(log.load_id), toLowerCase(term))
         \/ includes(toLowerCase(log.outcome), toLowerCase(term))
         \/ includes(toLowerCase(log.sentiment), toLowerCase(term)))

FilteredLogsCaseSensitive(l, term) ==
  IF term = <<>> THEN l
  ELSE SelectSeq(l, LAMBDA log :
         \/ includes(log.mc_number, term)
         \/ includes(toLowerCase(log.load_id), toLowerCase(term))
         \/ includes(toLowerCase(log.outcome), toLowerCase(term))
         \/ includes(toLowerCase(log.sentiment), toLowerCase(term)))

FilteredLogsOf(l, term) ==
  IF term = <<>> THEN l
  ELSE SelectSeq(l, LAMBDA log :
         \/ includes(toLowerCase(log.mc_number), toLowerCase(term))
         \/ includes(toLowerCase(log.load_id), toLowerCase(term))
         \/ includes(toLowerCase(log.outcome), toLowerCase(term))
         \/ includes(toLowerCase(log.sentiment), toLowerCase(term)))

(***************************************************************************)
(* Numbers.  final_rate and rounds are JavaScript numbers: binary floating *)
(* point with a fixed number of significand bits (53 in the runtime,       *)
(* MantBits here), every sum rounded to nearest, ties to even.  Values are *)
(* non-negative integers, so a value is representable when it is below     *)
(* 2^MantBits or a multiple of the quantum of its binade.                  *)
(***************************************************************************)
MantBits == 10

RECURSIVE Quantum(_)
Quantum(x) == IF x < 2 ^ MantBits THEN 1 ELSE 2 * Quantum(x \div 2)

FRound(x) ==
  LET q  == Quantum(x)
      lo == (x \div q) * q
      r  == x - lo
  IN  IF 2 * r < q THEN lo
      ELSE IF 2 * r > q THEN lo + q
      ELSE IF (x \div q) % 2 = 0 THEN lo ELSE lo + q

\* a + b on numbers
NumAdd(a, b) == FRound(a + b)

RECURSIVE Gcd(_, _)
Gcd(a, b) == IF b = 0 THEN a ELSE Gcd(b, a % b)

\* a / n on numbers.  The quotient is kept as the reduced fraction it is the
\* nearest number to; 0 / 0 is NaN and x / 0 is Infinity.
NaN == [num |-> 0, den |-> 0]
Infinity == [num |-> 1, den |-> 0]
Zero == [num |-> 0, den |-> 1]

NumDiv(a, n) ==
  IF n = 0 THEN (IF a = 0 THEN NaN ELSE Infinity)
  ELSE LET g == Gcd(a, n) IN [num |-> a \div g, den |-> n \div g]

\* Array.prototype.reduce((sum, x) => sum + x, 0) over a sequence of numbers:
\* a left fold starting from 0.
SumFromLast(sum, xs) == IF xs = <<>> THEN sum ELSE xs[Len(xs)]

RECURSIVE SumFrom(_, _)
SumFrom(sum, xs) == IF xs = <<>> THEN sum ELSE SumFrom(NumAdd(sum, Head(xs)), Tail(xs))

(***************************************************************************)
(* stats: the callback of the second useMemo.                              *)
(***************************************************************************)
StatsNoEmptyGuard(l) ==
  [accepted     |-> Len(SelectSeq(l, LAMBDA log : log.outcome = Accepted)),
   declined     |-> Len(SelectSeq(l, LAMBDA log : log.outcome = Declined)),
   avgFinalRate |-> NumDiv(SumFrom(0, [i \in 1..Len(l) |-> l[i].final_rate]), Len(l)),
   avgRounds    |-> NumDiv(SumFrom(0, [i \in 1..Len(l) |-> l[i].rounds]), Len(l))]

StatsDeclinedCountsRest(l) ==
  IF Len(l) = 0 THEN [accepted |-> 0, declined |-> 0, avgFinalRate |-> Zero, avgRounds |-> Zero]
  ELSE
    [accepted     |-> Len(SelectSeq(l, LAMBDA log : log.outcome = Accepted)),
     declined     |-> Len(SelectSeq(l, LAMBDA log : log.outcome # Accepted)),
     avgFinalRate |-> NumDiv(SumFrom(0, [i \in 1..Len(l) |-> l[i].final_rate]), Len(l)),
     avgRounds    |-> NumDiv(SumFrom(0, [i \in 1..Len(l) |-> l[i].rounds]), Len(l))]

StatsOf(l) ==
  IF Len(l) = 0 THEN [accepted |-> 0, declined |-> 0, avgFinalRate |-> Zero, avgRounds |-> Zero]
  ELSE
    [accepted     |-> Len(SelectSeq(l, LAMBDA log : log.outcome = Accepted)),
     declined     |-> Len(SelectSeq(l, LAMBDA log : log.outcome = Declined)),
     avgFinalRate |-> NumDiv(SumFrom(0, [i \in 1..Len(l) |-> l[i].final_rate]), Len(l)),
     avgRounds    |-> NumDiv(SumFrom(0, [i \in 1..Len(l) |-> l[i].rounds]), Len(l))]

(***************************************************************************)
(* chartData: the callback of the third useMemo.                           *)
(*                                                                         *)
(* A plain object used as a map is a sequence of entries in insertion      *)
(* order, which is the order Object.entries and Object.values iterate in   *)
(* (no key here is an array index).                                        *)
(***************************************************************************)
OUTCOME_COLORS  == (Accepted :> "#10b981") @@ (Declined :> "#ef4444") @@ (NoAgreement :> "#f59e0b")
SENTIMENT_COLORS == (Positive :> "#10b981") @@ (Neutral :> "#6b7280") @@ (Negative :> "#ef4444")

HasKey(acc, k) == \E i \in 1..Len(acc) : acc[i].key = k

CountStepNoIncrement(acc, k) ==
  IF HasKey(acc, k) THEN acc ELSE Append(acc, [key |-> k, value |-> 1])

\* acc[k] = (acc[k] || 0) + 1
CountStep(acc, k) ==
  IF HasKey(acc, k)
    THEN [i \in 1..Len(acc) |-> IF acc[i].key = k THEN [acc[i] EXCEPT !.value = @ + 1] ELSE acc[i]]
    ELSE Append(acc, [key |-> k, value |-> 1])

RECURSIVE CountReduce(_, _)
CountReduce(acc, keys) ==
  IF keys = <<>> THEN acc ELSE CountReduce(CountStep(acc, Head(keys)), Tail(keys))

outcomeCounts(l) == CountReduce(<<>>, [i \in 1..Len(l) |-> l[i].outcome])

outcomeDataAllCategories(l) ==
  LET counts == outcomeCounts(l)
      all    == <<Accepted, Declined, NoAgreement>>
  IN  [i \in 1..3 |->
         [name  |-> replace(all[i], "_", " "),
          value |-> IF HasKey(counts, all[i])
                      THEN (CHOOSE e \in {counts[k] : k \in 1..Len(counts)} : e.key = all[i]).value
                      ELSE 0,
          color |-> OUTCOME_COLORS[all[i]]]]

outcomeData(l) ==
  LET counts == outcomeCounts(l)
  IN  [i \in 1..Len(counts) |->
         [name  |-> replace(counts[i].key, "_", " "),
          value |-> counts[i].value,
          color |-> OUTCOME_COLORS[counts[i].key]]]

sentimentCounts(l) == CountReduce(<<>>, [i \in 1..Len(l) |-> l[i].sentiment])

sentimentData(l) ==
  LET counts == sentimentCounts(l)
  IN  [i \in 1..Len(counts) |->
         [name  |-> counts[i].key,
          value |-> counts[i].value,
          color |-> SENTIMENT_COLORS[counts[i].key]]]

(***************************************************************************)
(* Dates.  A Date holds an instant (hours since the epoch here); the       *)
(* calendar conversions are those of the proleptic Gregorian calendar.     *)
(***************************************************************************)
DaysFromCivil(y, m, d) ==
  LET yy  == IF m <= 2 THEN y - 1 ELSE y
      era == yy \div 400
      yoe == yy - era * 400
      mp  == IF m > 2 THEN m - 3 ELSE m + 9
      doy == (153 * mp + 2) \div 5 + d - 1
      doe == yoe * 365 + yoe \div 4 - yoe \div 100 + doy
  IN  era * 146097 + doe - 719468

CivilFromDays(z0) ==
  LET z   == z0 + 719468
      era == z \div 146097
      doe == z - era * 146097
      yoe == (doe - doe \div 1460 + doe \div 36524 - doe \div 146096) \div 365
      doy == doe - (365 * yoe + yoe \div 4 - yoe \div 100)
      mp  == (5 * doy + 2) \div 153
      d   == doy - (153 * mp + 2) \div 5 + 1
      m   == IF mp < 10 THEN mp + 3 ELSE mp - 9
      y   == yoe + era * 400
  IN  <<IF m <= 2 THEN y + 1 ELSE y, m, d>>

\* new Date(created_at): the instant of a timestamp with a UTC offset
DateParse(at) == DaysFromCivil(at.y, at.mo, at.d) * 24 + at.h - at.off

\* toISOString().split('T')[0]: the UTC calendar date YYYY-MM-DD of an instant,
\* kept as <<year, month, day>>
IsoDate(instant) == CivilFromDays(instant \div 24)

\* new Date("YYYY-MM-DD").getTime(): a date-only string is midnight UTC
DateOnlyTime(date) == DaysFromCivil(date[1], date[2], date[3]) * 24

DateKeyLocal(log) == <<log.created_at.y, log.created_at.mo, log.created_at.d>>

DateKey(log) == IsoDate(DateParse(log.created_at))

\* if (!acc[date]) acc[date] = { rates: [], date }; acc[date].rates.push(final_rate)
DailyStep(acc, log) ==
  LET date == DateKey(log)
  IN  IF HasKey(acc, date)
        THEN [i \in 1..Len(acc) |->
                IF acc[i].key = date
                  THEN [acc[i] EXCEPT !.rates = Append(@, log.final_rate)]
                  ELSE acc[i]]
        ELSE Append(acc, [key |-> date, date |-> date, rates |-> <<log.final_rate>>])

RECURSIVE DailyReduce(_, _)
DailyReduce(acc, l) ==
  IF l = <<>> THEN acc ELSE DailyReduce(DailyStep(acc, Head(l)), Tail(l))

dailyRates(l) == DailyReduce(<<>>, l)

\* Array.prototype.sort with the comparator a.time - b.time: stable, ascending.
RECURSIVE InsertByTime(_, _)
InsertByTime(sorted, e) ==
  IF sorted = <<>> THEN <<e>>
  ELSE IF DateOnlyTime(sorted[Len(sorted)].date) - DateOnlyTime(e.date) <= 0
         THEN Append(sorted, e)
         ELSE Append(InsertByTime(SubSeq(sorted, 1, Len(sorted) - 1), e), sorted[Len(sorted)])

SortByTimeNone(xs) == xs

RECURSIVE SortByTime(_)
SortByTime(xs) ==
  IF xs = <<>> THEN <<>>
  ELSE InsertByTime(SortByTime(SubSeq(xs, 1, Len(xs) - 1)), xs[Len(xs)])

\* the window of slice(-7)
TrendWindow == 7

\* Array.prototype.slice(-n): the last n elements, all of them when there are fewer
SliceLast(xs, n) == SubSeq(xs, IF Len(xs) > n THEN Len(xs) - n + 1 ELSE 1, Len(xs))

trendData(l) ==
  LET daily  == dailyRates(l)
      mapped == [i \in 1..Len(daily) |->
                   [date    |-> daily[i].date,
                    avgRate |-> NumDiv(SumFrom(0, daily[i].rates), Len(daily[i].rates))]]
  IN  SliceLast(SortByTime(mapped), TrendWindow)

ChartDataOf(l) ==
  IF Len(l) = 0 THEN [outcomeData |-> <<>>, sentimentData |-> <<>>, trendData |-> <<>>]
  ELSE [outcomeData |-> outcomeData(l), sentimentData |-> sentimentData(l), trendData |-> trendData(l)]

(***************************************************************************)
(* The three useMemo hooks: the callback runs again when a dependency      *)
(* changed since the previous render, otherwise the previous value is      *)
(* kept.  Dependencies are compared by value here; the callbacks are pure, *)
(* so a recomputation on a new reference with equal content is the same.   *)
(***************************************************************************)
filteredLogsMemoLogsOnly(prevLogs, prevTerm, prev, l, term) ==
  IF l = prevLogs THEN prev ELSE FilteredLogsOf(l, term)

filteredLogsMemo(prevLogs, prevTerm, prev, l, term) ==
  IF l = prevLogs /\ term = prevTerm THEN prev ELSE FilteredLogsOf(l, term)

statsMemoOverFiltered(prevLogs, prevTerm, prev, l, term) ==
  IF l = prevLogs /\ term = prevTerm THEN prev ELSE StatsOf(FilteredLogsOf(l, term))

statsMemo(prevLogs, prevTerm, prev, l, term) ==
  IF l = prevLogs THEN prev ELSE StatsOf(l)

chartDataMemo(prevLogs, prevTerm, prev, l, term) ==
  IF l = prevLogs THEN prev ELSE ChartDataOf(l)

\* new Date(created_at) is a valid date
Parseable(at) == at.mo \in 1..12 /\ at.d \in 1..31 /\ at.h \in 0..23

\* toISOString throws a RangeError on an invalid date: the chartData callback,
\* when it runs on a non-empty sequence with such a record, throws.
ChartDataThrows(prevLogs, l) ==
  l # prevLogs /\ Len(l) # 0 /\ \E i \in 1..Len(l) : ~Parseable(l[i].created_at)

\* What Dashboard returns: the skeleton while loading, the error card on
\* error, the dashboard otherwise.
ScreenOf(st) ==
  IF st = "pending" THEN "skeleton" ELSE IF st = "error" THEN "error" ELSE "dashboard"

\* One render of Dashboard with the given query status, query data and search
\* term.  An exception thrown while rendering is caught by nothing: the
\* component tree is unmounted and the page stays blank.
Render(st, l, term) ==
  IF ChartDataThrows(logs, l)
    THEN /\ screen' = "blank"
         /\ UNCHANGED derived
    ELSE /\ filteredLogs' = filteredLogsMemo(logs, searchTerm, filteredLogs, l, term)
         /\ stats' = statsMemo(logs, searchTerm, stats, l, term)
         /\ chartData' = chartDataMemo(logs, searchTerm, chartData, l, term)
         /\ screen' = ScreenOf(st)

(***************************************************************************)
(* State machine.  upstream is the JSON array the data source answers      *)
(* with; status is the query's status; logs is `data` with its default []. *)
(***************************************************************************)
\* JSON values that travel as bodies: an array of records or an object with
\* a message; the message of the proxy names a status and its text.
JsonArray(items) ==
  [type |-> "array", items |-> items, message |-> [text |-> "", status |-> 0, statusText |-> ""]]

JsonMessage(text, code, statusText) ==
  [type |-> "object", items |-> <<>>, message |-> [text |-> text, status |-> code, statusText |-> statusText]]

NotJson == [type |-> "none", items |-> <<>>, message |-> [text |-> "", status |-> 0, statusText |-> ""]]

NoUpstream ==
  [kind |-> "none", status |-> 0, statusText |-> "", decodable |-> FALSE, body |-> NotJson]

ProxyInit ==
  /\ proxyPc = "idle"
  /\ proxyUp = NoUpstream
  /\ proxyRes = <<>>

Healths == {"ok", "non2xx", "unreachable"}

\* retry: 3
retry == 3

\* The first render: no data yet, empty search term, the first call of
\* queryFn under way.
InitDashboard(batches, healths) ==
  /\ ProxyInit
  /\ upstream \in batches
  /\ health \in healths
  /\ fetching = TRUE
  /\ hasData = FALSE
  /\ attempts = 1
  /\ dataUpdateCount = 0
  /\ screen = ScreenOf("pending")
  /\ status = "pending"
  /\ logs = <<>>
  /\ searchTerm = <<>>
  /\ filteredLogs = FilteredLogsOf(<<>>, <<>>)
  /\ stats = StatsOf(<<>>)
  /\ chartData = ChartDataOf(<<>>)

InitWith(batches) == InitDashboard(batches, {"ok"})

\* queryFn resolves with the decoded response; the component renders again.
QuerySuccess ==
  /\ screen # "blank"
  /\ fetching
  /\ health = "ok"
  /\ status' = "success"
  /\ fetching' = FALSE
  /\ hasData' = TRUE
  /\ dataUpdateCount' = dataUpdateCount + 1
  /\ logs' = upstream
  /\ Render("success", upstream, searchTerm)
  /\ UNCHANGED <<upstream, health, attempts, searchTerm, proxyVars>>

\* failureCount < retry, with the failures of the fetch before this one
ShouldRetryOnceMore(failureCount) == failureCount <= retry

ShouldRetry(failureCount) == failureCount < retry

\* queryFn fails (fetch rejects, or the response is not ok and it throws) and
\* the query retries: after the retry delay queryFn is called again.
QueryRetry ==
  /\ screen # "blank"
  /\ fetching
  /\ health # "ok"
  /\ ShouldRetry(attempts - 1)
  /\ attempts' = attempts + 1
  /\ UNCHANGED <<upstream, health, fetching, hasData, dataUpdateCount, status, logs,
                 searchTerm, derived, screen, proxyVars>>

QueryErrorClearsData ==
  /\ screen # "blank"
  /\ fetching
  /\ health # "ok"
  /\ ~ShouldRetry(attempts - 1)
  /\ status' = "error"
  /\ fetching' = FALSE
  /\ logs' = <<>>
  /\ Render("error", <<>>, searchTerm)
  /\ UNCHANGED <<upstream, health, hasData, attempts, dataUpdateCount, searchTerm, proxyVars>>

\* queryFn fails and no retry is left: the query is in error, with the data
\* it had; the component renders again.
QueryError ==
  /\ screen # "blank"
  /\ fetching
  /\ health # "ok"
  /\ ~ShouldRetry(attempts - 1)
  /\ status' = "error"
  /\ fetching' = FALSE
  /\ Render("error", logs, searchTerm)
  /\ UNCHANGED <<upstream, health, hasData, attempts, dataUpdateCount, logs, searchTerm,
                 proxyVars>>

\* A fetch starts: the failure count is reset, and a query without data is
\* pending again.
StartFetch ==
  /\ dataUpdateCount < MaxFetches
  /\ fetching' = TRUE
  /\ attempts' = 1
  /\ status' = IF hasData THEN status ELSE "pending"
  /\ Render(IF hasData THEN status ELSE "pending", logs, searchTerm)
  /\ UNCHANGED <<upstream, health, hasData, dataUpdateCount, logs, searchTerm, proxyVars>>

\* onClick of the Retry button of the error card: refetch()
RetryClick ==
  /\ screen = "error"
  /\ StartFetch

\* The query refetches on its own (reconnect, remount) while it is idle.
Refetch ==
  /\ screen \in {"dashboard", "error"}
  /\ ~fetching
  /\ StartFetch

\* The data source changes: other records, or another way of answering.
SourceChanges(batches) ==
  /\ \E b \in batches, h \in Healths :
       /\ <<b, h>> # <<upstream, health>>
       /\ upstream' = b
       /\ health' = h
  /\ UNCHANGED <<fetching, hasData, attempts, dataUpdateCount, status, logs, searchTerm,
                 derived, screen, proxyVars>>

\* onChange of the search input (rendered only in the dashboard):
\* setSearchTerm(e.target.value), then a render.
SetSearchTerm(value) ==
  /\ screen = "dashboard"
  /\ value # searchTerm
  /\ searchTerm' = value
  /\ Render(status, logs, value)
  /\ UNCHANGED <<upstream, status, logs, proxyVars, queryVars>>

\* What one edit of the input can leave in it: a character typed, or the
\* last one deleted.
Edits(term, chars) ==
  {Append(term, c) : c \in (IF Len(term) < MaxTermLen THEN chars ELSE {})}
    \cup (IF term = <<>> THEN {} ELSE {SubSeq(term, 1, Len(term) - 1)})

SeqsUpTo(S, n) == UNION {[1..k -> S] : k \in 0..n}

(***************************************************************************)
(* Responses of the data source.                                           *)
(***************************************************************************)
At0 == Stamp(2024, 2, 25, 10, 0)

MC1  == <<"M", "C", "1">>
Mc2  == <<"m", "c", "2">>
X9   == <<"X", "9">>
M1C  == <<"M", "1", "C">>
LD7  == <<"L", "D", "7">>
AC1  == <<"A", "C", "1">>
LD8  == <<"L", "D", "8">>
Lm   == <<"m">>

SearchPool ==
  {LogData(MC1, LD7, 100, Accepted, Negative, 2, At0),
   LogData(Mc2, AC1, 200, Declined, Positive, 3, Stamp(2024, 2, 26, 23, -5)),
   LogData(X9, LD8, 300, NoAgreement, Neutral, 1, At0),
   LogData(M1C, Lm, 50, Declined, Positive, 4, Stamp(2024, 3, 1, 1, 2))}

SearchChars == {"m", "C", "1", "A"}

SearchBatches == {Batch(recs) : recs \in SeqsUpTo(SearchPool, MaxLogs)}

Init == InitWith(SearchBatches)

Next ==
  \/ QuerySuccess
  \/ \E value \in Edits(searchTerm, SearchChars) : SetSearchTerm(value)

Spec == Init /\ [][Next]_vars

\* The smallest power of two whose successor is not a number.
BigRate == 2 ^ MantBits

StatsPool ==
  {LogData(MC1, LD7, 100, Accepted, Positive, 2, At0),
   LogData(MC1, LD7, 200, Accepted, Neutral, 3, At0),
   LogData(MC1, LD7, 300, Declined, Negative, 1, At0),
   LogData(MC1, LD7, 1, NoAgreement, Neutral, 0, At0),
   LogData(MC1, LD7, BigRate, Declined, Positive, 4, At0),
   LogData(MC1, LD7, 25, NoAgreement, Negative, 5, At0)}

StatsChars == {"a"}

StatsBatches == {Batch(recs) : recs \in SeqsUpTo(StatsPool, MaxLogs)}

InitStats == InitWith(StatsBatches)

NextStats ==
  \/ QuerySuccess
  \/ \E value \in Edits(searchTerm, StatsChars) : SetSearchTerm(value)

SpecStats == InitStats /\ [][NextStats]_vars

TrendSize == 10

TrendPool ==
  <<LogData(MC1, LD7, 100, Accepted, Positive, 2, Stamp(2024, 2, 25, 10, 0)),
    LogData(MC1, LD7, 200, Accepted, Positive, 2, Stamp(2024, 2, 26, 23, -5)),
    LogData(MC1, LD7, 300, Declined, Positive, 2, Stamp(2024, 2, 27, 8, 0)),
    LogData(MC1, LD7, 40, Accepted, Positive, 2, Stamp(2024, 2, 28, 12, 0)),
    LogData(MC1, LD7, 50, Accepted, Neutral, 2, Stamp(2024, 2, 29, 22, -3)),
    LogData(MC1, LD7, 60, Accepted, Positive, 2, Stamp(2024, 2, 29, 9, 0)),
    LogData(MC1, LD7, 75, NoAgreement, Positive, 2, Stamp(2024, 3, 1, 1, 2)),
    LogData(MC1, LD7, 80, Accepted, Positive, 2, Stamp(2024, 3, 2, 0, 0)),
    LogData(MC1, LD7, 90, Accepted, Negative, 2, Stamp(2024, 3, 3, 15, 0)),
    LogData(MC1, LD7, 10, Accepted, Positive, 2, Stamp(2023, 12, 31, 20, -5)),
    LogData(MC1, LD7, 20, Accepted, Positive, 2, Stamp(2024, 3, 4, 6, 0)),
    LogData(MC1, LD7, 30, Accepted, Positive, 2, Stamp(2024, 3, 5, 6, 0))>>

TrendN == IF TrendSize < Len(TrendPool) THEN TrendSize ELSE Len(TrendPool)

\* Three orders of arrival: as listed, reversed, odd positions then even ones.
TrendOrders ==
  {[i \in 1..TrendN |-> i],
   [i \in 1..TrendN |-> TrendN + 1 - i],
   [i \in 1..TrendN |-> IF i <= (TrendN + 1) \div 2 THEN 2 * i - 1 ELSE 2 * (i - (TrendN + 1) \div 2)]}

TrendBatches ==
  {Batch([i \in 1..Len(SelectSeq(ord, LAMBDA k : k \in keep)) |->
            TrendPool[SelectSeq(ord, LAMBDA k : k \in keep)[i]]]) :
     ord \in TrendOrders, keep \in SUBSET (1..TrendN)}

TrendChars == {"a"}

InitTrend == InitWith(TrendBatches)

NextTrend ==
  \/ QuerySuccess
  \/ \E value \in Edits(searchTerm, TrendChars) : SetSearchTerm(value)

SpecTrend == InitTrend /\ [][NextTrend]_vars

(***************************************************************************)
(* registerRoutes: the handler of GET /api/logs.                           *)
(***************************************************************************)
\* response.ok
ResponseOkOnly200(up) == up.status = 200

ResponseOk(up) == up.status \in 200..299

\* the status res.json sends when none was set
DefaultStatus == 200

\* res.status(500) of the catch block
FailureStatus == 500

\* res.status(code).json(body): one more response on the wire
Send(code, body) == proxyRes' = Append(proxyRes, [status |-> code, body |-> body])

ExternalApiError(up) == JsonMessage("External API error: ", up.status, up.statusText)

FailedToFetch == JsonMessage("Failed to fetch data from external API", 0, "")

\* A request arrives; the handler calls fetch.
ProxyRequest ==
  /\ proxyPc \in {"idle", "done"}
  /\ proxyPc' = "fetching"
  /\ proxyUp' = NoUpstream
  /\ proxyRes' = <<>>
  /\ UNCHANGED <<upstream, status, logs, searchTerm, derived, queryVars, screen>>

\* fetch rejects (the data source was not reached): the catch block answers.
ProxyFetchRejects ==
  /\ proxyPc = "fetching"
  /\ proxyUp' = [NoUpstream EXCEPT !.kind = "network_error"]
  /\ Send(FailureStatus, FailedToFetch)
  /\ proxyPc' = "done"
  /\ UNCHANGED <<upstream, status, logs, searchTerm, derived, queryVars, screen>>

\* fetch resolves with a response: not ok, the handler answers and returns;
\* ok, it goes on to decode the body.
ProxyFetchResolves(up) ==
  /\ proxyPc = "fetching"
  /\ proxyUp' = up
  /\ IF ~ResponseOk(up)
       THEN Send(up.status, ExternalApiError(up)) /\ proxyPc' = "done"
       ELSE proxyPc' = "decoding" /\ UNCHANGED proxyRes
  /\ UNCHANGED <<upstream, status, logs, searchTerm, derived, queryVars, screen>>

\* response.json() resolves: res.json(data)
ProxyJsonResolves ==
  /\ proxyPc = "decoding"
  /\ proxyUp.decodable
  /\ Send(DefaultStatus, proxyUp.body)
  /\ proxyPc' = "done"
  /\ UNCHANGED <<upstream, status, logs, searchTerm, derived, queryVars, screen, proxyUp>>

\* response.json() rejects: the catch block answers.
ProxyJsonRejects ==
  /\ proxyPc = "decoding"
  /\ ~proxyUp.decodable
  /\ Send(FailureStatus, FailedToFetch)
  /\ proxyPc' = "done"
  /\ UNCHANGED <<upstream, status, logs, searchTerm, derived, queryVars, screen, proxyUp>>

QueryPool ==
  {LogData(MC1, LD7, 100, Accepted, Negative, 2, At0),
   LogData(X9, LD8, 300, NoAgreement, Neutral, 1, Stamp(2024, 2, 26, 23, -5)),
   LogData(Mc2, AC1, 200, Declined, Positive, 3, At0)}

QueryBatches == {Batch(recs) : recs \in SeqsUpTo(QueryPool, 2)}

StatusTexts ==
  (200 :> "OK") @@ (201 :> "Created") @@ (204 :> "No Content") @@ (400 :> "Bad Request")
    @@ (404 :> "Not Found") @@ (500 :> "Internal Server Error") @@ (503 :> "Service Unavailable")

UpstreamBodies ==
  {JsonArray(b) : b \in QueryBatches}
    \cup {JsonMessage("not found", 0, ""), JsonMessage("maintenance", 0, "")}

\* What the data source can answer: any of the statuses, with a JSON body or
\* with one that does not decode.
UpstreamResponses ==
  {[kind |-> "response", status |-> code, statusText |-> StatusTexts[code],
    decodable |-> TRUE, body |-> body] : code \in DOMAIN StatusTexts, body \in UpstreamBodies}
    \cup {[kind |-> "response", status |-> code, statusText |-> StatusTexts[code],
           decodable |-> FALSE, body |-> NotJson] : code \in DOMAIN StatusTexts}

InitProxy == InitWith({<<>>})

NextProxy ==
  \/ ProxyRequest
  \/ ProxyFetchRejects
  \/ \E up \in UpstreamResponses : ProxyFetchResolves(up)
  \/ ProxyJsonResolves
  \/ ProxyJsonRejects

SpecProxy == InitProxy /\ [][NextProxy]_vars

\* A created_at that is no timestamp.
NotATimestamp == Stamp(0, 0, 0, 0, 0)

MalformedLog == LogData(Mc2, LD8, 50, Accepted, Positive, 2, NotATimestamp)

LoadableBatches ==
  {Batch(recs) : recs \in SeqsUpTo(QueryPool, 1)}
    \cup {Batch(<<LogData(MC1, LD7, 100, Accepted, Negative, 2, At0),
                   LogData(X9, LD8, 300, NoAgreement, Neutral, 1, Stamp(2024, 2, 26, 23, -5)),
                   LogData(Mc2, AC1, 200, Declined, Positive, 3, At0)>>)}
    \cup {Batch(<<MalformedLog>>)}
    \cup {Batch(<<LogData(MC1, LD7, 100, Accepted, Negative, 2, At0), MalformedLog>>)}

QueryChars == {"1"}

InitQuery == InitDashboard(LoadableBatches, Healths)

NextQuery ==
  \/ QuerySuccess
  \/ QueryRetry
  \/ QueryError
  \/ RetryClick
  \/ Refetch
  \/ SourceChanges(LoadableBatches)
  \/ \E value \in Edits(searchTerm, QueryChars) : SetSearchTerm(value)

SpecQuery == InitQuery /\ [][NextQuery]_vars

\* The data source answers the same way for good.  A failing call of queryFn
\* settles and a retry delay elapses, so a failing fetch goes on to its end.
NextRetry ==
  \/ QuerySuccess
  \/ QueryRetry
  \/ QueryError
  \/ RetryClick
  \/ \E value \in Edits(searchTerm, QueryChars) : SetSearchTerm(value)

InitRetry == InitDashboard(QueryBatches \cup LoadableBatches, Healths)

SpecRetry ==
  /\ InitRetry
  /\ [][NextRetry]_vars
  /\ WF_vars(QueryRetry)
  /\ WF_vars(QueryError)

(***************************************************************************)
(* Properties.  They are stated with their own vocabulary (index sets,     *)
(* cardinalities, a calendar table), not with the operators above.         *)
(***************************************************************************)
Loaded == status = "success"

\* the j-th smallest element of a set of integers
NthOf(S, j) == CHOOSE i \in S : Cardinality({k \in S : k < i}) = j - 1

CasePairs ==
  {<<"a", "A">>, <<"b", "B">>, <<"c", "C">>, <<"d", "D">>, <<"e", "E">>, <<"f", "F">>,
   <<"g", "G">>, <<"h", "H">>, <<"i", "I">>, <<"j", "J">>, <<"k", "K">>, <<"l", "L">>,
   <<"m", "M">>, <<"n", "N">>, <<"o", "O">>, <<"p", "P">>, <<"q", "Q">>, <<"r", "R">>,
   <<"s", "S">>, <<"t", "T">>, <<"u", "U">>, <<"v", "V">>, <<"w", "W">>, <<"x", "X">>,
   <<"y", "Y">>, <<"z", "Z">>}

SameLetter(a, b) == a = b \/ <<a, b>> \in CasePairs \/ <<b, a>> \in CasePairs

FieldHasTerm(field, term) ==
  \E off \in 0..(Len(field) - Len(term)) :
    \A k \in 1..Len(term) : SameLetter(field[off + k], term[k])

SearchedFields(log) == {log.mc_number, log.load_id, log.outcome, log.sentiment}

RecordMatches(log, term) == \E f \in SearchedFields(log) : FieldHasTerm(f, term)

Kept == {i \in 1..Len(logs) : RecordMatches(logs[i], searchTerm)}

\* C1: with a non-empty search term, the filtered table is exactly the
\* subsequence of the records, in their original order, one of whose
\* mc_number, load_id, outcome, sentiment contains the term, letters compared
\* without regard to case.
C1_FilterIsMatchingSubsequence ==
  searchTerm # <<>> =>
    /\ Len(filteredLogs) = Cardinality(Kept)
    /\ \A j \in 1..Len(filteredLogs) : filteredLogs[j] = logs[NthOf(Kept, j)]

\* Scenario E inside a longer table: a record with sentiment negative is kept
\* through its mc_number alone, which holds the term only up to case; a later
\* record is dropped and one after it is kept.
C1_Witness ==
  /\ Loaded
  /\ searchTerm # <<>>
  /\ \E i, j, k \in 1..Len(logs) :
       /\ i < j /\ j < k
       /\ i \in Kept /\ j \notin Kept /\ k \in Kept
       /\ logs[i].sentiment = Negative
       /\ \A f \in SearchedFields(logs[i]) \ {logs[i].mc_number} : ~FieldHasTerm(f, searchTerm)
       /\ \A off \in 0..(Len(logs[i].mc_number) - Len(searchTerm)) :
            SubSeq(logs[i].mc_number, off + 1, off + Len(searchTerm)) # searchTerm
       /\ Len(filteredLogs) = 2

\* C2: with the empty search term the filtered table is the record sequence
\* itself: same records, same order, same length.
C2_EmptyTermIsIdentity ==
  searchTerm = <<>> =>
    /\ Len(filteredLogs) = Len(logs)
    /\ \A i \in 1..Len(logs) : filteredLogs[i] = logs[i]

C2_Witness ==
  /\ Loaded
  /\ searchTerm = <<>>
  /\ Len(logs) >= 2
  /\ logs[1] # logs[2]
  /\ filteredLogs = logs

\* C3: a change of the search term alone leaves the four summary statistics
\* and the three chart tables as they were; the filtered table is the only
\* derived value that follows the term.
C3_SearchTermFramesStatsAndCharts ==
  [][(searchTerm' # searchTerm /\ logs' = logs) =>
       /\ stats'.accepted = stats.accepted
       /\ stats'.declined = stats.declined
       /\ stats'.avgFinalRate = stats.avgFinalRate
       /\ stats'.avgRounds = stats.avgRounds
       /\ chartData'.outcomeData = chartData.outcomeData
       /\ chartData'.sentimentData = chartData.sentimentData
       /\ chartData'.trendData = chartData.trendData
       /\ Len(filteredLogs') = Cardinality({i \in 1..Len(logs) :
                                              RecordMatches(logs[i], searchTerm')})]_vars

\* A search term is in force that hides an accepted record from the table,
\* while the accepted count still counts it.
C3_Witness ==
  /\ Loaded
  /\ searchTerm # <<>>
  /\ Len(filteredLogs) < Len(logs)
  /\ stats.accepted = Cardinality({i \in 1..Len(logs) : logs[i].outcome = Accepted})
  /\ stats.accepted > Cardinality({i \in 1..Len(filteredLogs) : filteredLogs[i].outcome = Accepted})
  /\ Len(chartData.outcomeData) >= 2

CountWhere(o) == Cardinality({i \in 1..Len(logs) : logs[i].outcome = o})

\* q is the number total / n
IsQuotient(q, total, n) == q.den > 0 /\ q.num * n = total * q.den

IsNumberZero(q) == IsQuotient(q, 0, 1)

\* C4: for the empty record sequence the two counts and the two averages are
\* 0 (a number, not the NaN of 0 / 0) and the three chart tables are empty.
C4_EmptyDatasetIsZero ==
  logs = <<>> =>
    /\ stats.accepted = 0
    /\ stats.declined = 0
    /\ IsNumberZero(stats.avgFinalRate)
    /\ IsNumberZero(stats.avgRounds)
    /\ chartData.outcomeData = <<>>
    /\ chartData.sentimentData = <<>>
    /\ chartData.trendData = <<>>

\* The data source answered with an empty array.
C4_Witness == Loaded /\ upstream = <<>> /\ logs = <<>> /\ stats.accepted = 0

\* C5: for a non-empty record sequence the accepted and declined counts are
\* the numbers of records with these outcomes, their sum is at most the
\* length, and the remainder is the number of no_agreement records.
C5_CountsPartitionRecords ==
  (Loaded /\ logs # <<>>) =>
    /\ stats.accepted = CountWhere(Accepted)
    /\ stats.declined = CountWhere(Declined)
    /\ stats.accepted + stats.declined <= Len(logs)
    /\ Len(logs) - stats.accepted - stats.declined = CountWhere(NoAgreement)

C5_Witness ==
  /\ Loaded
  /\ Len(logs) = 3
  /\ stats.accepted = 1 /\ stats.declined = 1
  /\ CountWhere(NoAgreement) = 1

RECURSIVE ExactTotal(_, _)
ExactTotal(xs, n) == IF n = 0 THEN 0 ELSE xs[n] + ExactTotal(xs, n - 1)

Rates(l)  == [i \in 1..Len(l) |-> l[i].final_rate]
Rounds(l) == [i \in 1..Len(l) |-> l[i].rounds]

Reorderings(l) ==
  {[i \in 1..Len(l) |-> l[p[i]]] :
     p \in {f \in [1..Len(l) -> 1..Len(l)] : \A a, b \in 1..Len(l) : f[a] = f[b] => a = b}}

\* C6 as stated: for a non-empty record sequence the two averages are the
\* sums divided by the number of records, whatever the order of the records.
C6_MeansExactInAnyOrder ==
  (Loaded /\ logs # <<>>) =>
    /\ IsQuotient(stats.avgFinalRate, ExactTotal(Rates(logs), Len(logs)), Len(logs))
    /\ IsQuotient(stats.avgRounds, ExactTotal(Rounds(logs), Len(logs)), Len(logs))
    /\ \A l \in Reorderings(logs) :
         /\ StatsOf(l).avgFinalRate = stats.avgFinalRate
         /\ StatsOf(l).avgRounds = stats.avgRounds

\* every value and every sum of values of xs is a number, exactly
SumsAreExact(xs) == ExactTotal(xs, Len(xs)) <= 2 ^ MantBits

\* C6 as amended: the averages are the sums divided by the number of records,
\* in any order of the records, when the values are integers whose total is
\* within the range in which every integer is a number.
C6_MeansExactWhenSumsAre ==
  (Loaded /\ logs # <<>>) =>
    /\ SumsAreExact(Rates(logs)) =>
         /\ IsQuotient(stats.avgFinalRate, ExactTotal(Rates(logs), Len(logs)), Len(logs))
         /\ \A l \in Reorderings(logs) : StatsOf(l).avgFinalRate = stats.avgFinalRate
    /\ SumsAreExact(Rounds(logs)) =>
         /\ IsQuotient(stats.avgRounds, ExactTotal(Rounds(logs), Len(logs)), Len(logs))
         /\ \A l \in Reorderings(logs) : StatsOf(l).avgRounds = stats.avgRounds

\* Scenario A: rates 100, 200, 300 with outcomes accepted, accepted, declined.
C6_Witness ==
  /\ Loaded
  /\ Rates(logs) = <<100, 200, 300>>
  /\ SumsAreExact(Rates(logs))
  /\ IsQuotient(stats.avgFinalRate, 200, 1)
  /\ stats.accepted = 2 /\ stats.declined = 1
  /\ stats.avgRounds = [num |-> 2, den |-> 1]

RECURSIVE TotalValue(_, _)
TotalValue(table, n) == IF n = 0 THEN 0 ELSE table[n].value + TotalValue(table, n - 1)

\* C7: the counts of the outcome distribution add up to the number of
\* records, and so do the counts of the sentiment distribution.
C7_DistributionCountsAddUp ==
  /\ TotalValue(chartData.outcomeData, Len(chartData.outcomeData)) = Len(logs)
  /\ TotalValue(chartData.sentimentData, Len(chartData.sentimentData)) = Len(logs)

\* Three records fall into two outcomes and into two sentiments.
C7_Witness ==
  /\ Loaded
  /\ Len(logs) = 3
  /\ Len(chartData.outcomeData) = 2
  /\ Len(chartData.sentimentData) = 2
  /\ \E i \in 1..2 : chartData.outcomeData[i].value = 2

FirstOfOutcome == {i \in 1..Len(logs) : \A j \in 1..(i - 1) : logs[j].outcome # logs[i].outcome}

OutcomeLabel(o) ==
  CASE o = Accepted -> <<"a", "c", "c", "e", "p", "t", "e", "d">>
    [] o = Declined -> <<"d", "e", "c", "l", "i", "n", "e", "d">>
    [] o = NoAgreement -> <<"n", "o", " ", "a", "g", "r", "e", "e", "m", "e", "n", "t">>

\* green, red, amber
OutcomeColour(o) ==
  CASE o = Accepted -> "#10b981"
    [] o = Declined -> "#ef4444"
    [] o = NoAgreement -> "#f59e0b"

\* C8: the outcome distribution has one entry per outcome that occurs and
\* none for one that does not, in the order of first occurrence, each with
\* the count of its records, the outcome with its underscore turned into a
\* space as label, and the fixed colour of the outcome.
C8_OutcomeDistributionEntries ==
  LET table == chartData.outcomeData
  IN  /\ Len(table) = Cardinality(FirstOfOutcome)
      /\ \A j \in 1..Len(table) :
           LET o == logs[NthOf(FirstOfOutcome, j)].outcome
           IN  /\ table[j].name = OutcomeLabel(o)
               /\ table[j].value = CountWhere(o)
               /\ table[j].value > 0
               /\ table[j].color = OutcomeColour(o)

\* no_agreement occurs first and twice, accepted once, declined never.
C8_Witness ==
  /\ Loaded
  /\ Len(logs) = 3
  /\ logs[1].outcome = NoAgreement /\ logs[2].outcome = Accepted /\ logs[3].outcome = NoAgreement
  /\ Len(chartData.outcomeData) = 2
  /\ chartData.outcomeData[1].name = OutcomeLabel(NoAgreement)
  /\ chartData.outcomeData[1].value = 2
  /\ chartData.outcomeData[2].color = "#10b981"

\* calendar dates <<year, month, day>> in calendar order
DateBefore(a, b) ==
  \/ a[1] < b[1]
  \/ a[1] = b[1] /\ a[2] < b[2]
  \/ a[1] = b[1] /\ a[2] = b[2] /\ a[3] < b[3]

IsLeap(y) == y % 4 = 0 /\ (y % 100 # 0 \/ y % 400 = 0)

MonthLength(y, m) ==
  IF m = 2 THEN (IF IsLeap(y) THEN 29 ELSE 28)
  ELSE IF m \in {4, 6, 9, 11} THEN 30 ELSE 31

DayAfter(date) ==
  IF date[3] < MonthLength(date[1], date[2]) THEN <<date[1], date[2], date[3] + 1>>
  ELSE IF date[2] < 12 THEN <<date[1], date[2] + 1, 1>>
  ELSE <<date[1] + 1, 1, 1>>

DayBefore(date) ==
  IF date[3] > 1 THEN <<date[1], date[2], date[3] - 1>>
  ELSE IF date[2] > 1 THEN <<date[1], date[2] - 1, MonthLength(date[1], date[2] - 1)>>
  ELSE <<date[1] - 1, 12, 31>>

\* the UTC calendar date of a timestamp whose offset is less than a day
UtcDate(at) ==
  LET local == <<at.y, at.mo, at.d>>
      hour  == at.h - at.off
  IN  IF hour < 0 THEN DayBefore(local)
      ELSE IF hour >= 24 THEN DayAfter(local)
      ELSE local

DatesOfLogs == {UtcDate(logs[i].created_at) : i \in 1..Len(logs)}

LatestDates(n) ==
  {d \in DatesOfLogs : Cardinality({e \in DatesOfLogs : DateBefore(d, e)}) < n}

\* C9: the daily rate trend has at most 7 entries, no date twice, and its
\* dates ascend.
C9_TrendBoundedDistinctAscending ==
  LET trend == chartData.trendData
  IN  /\ Len(trend) <= 7
      /\ \A i, j \in 1..Len(trend) : i < j => trend[i].date # trend[j].date
      /\ \A i, j \in 1..Len(trend) : i < j => DateBefore(trend[i].date, trend[j].date)

\* More than 7 dates arrived, later ones before earlier ones, one of them
\* twice: the trend holds 7.
C9_Witness ==
  /\ Loaded
  /\ Cardinality(DatesOfLogs) > 7
  /\ Len(logs) > Cardinality(DatesOfLogs)
  /\ DateBefore(UtcDate(logs[Len(logs)].created_at), UtcDate(logs[1].created_at))
  /\ Len(chartData.trendData) = 7

OnDate(d) == {i \in 1..Len(logs) : UtcDate(logs[i].created_at) = d}

RECURSIVE RateTotal(_)
RateTotal(S) ==
  IF S = {} THEN 0
  ELSE LET i == CHOOSE k \in S : TRUE IN logs[i].final_rate + RateTotal(S \ {i})

ProxyDone == proxyPc = "done"

\* C11 as stated: every response of the data source is relayed with its
\* status and its JSON body; 500 with the generic message answers only a
\* failed call or a body that does not decode; a request gets one response.
C11_ProxyRelaysVerbatim ==
  ProxyDone =>
    /\ Len(proxyRes) = 1
    /\ (proxyUp.kind = "response" /\ proxyUp.decodable) =>
         /\ proxyRes[1].status = proxyUp.status
         /\ proxyRes[1].body = proxyUp.body
    /\ (proxyUp.kind = "network_error" \/ ~proxyUp.decodable) =>
         /\ proxyRes[1].status = 500
         /\ proxyRes[1].body.message.text = "Failed to fetch data from external API"

\* C11 as amended: a 2xx response whose body decodes is answered with status
\* 200 and that body; any other status is relayed with a message naming the
\* status and its text in place of the body; 500 with the generic message
\* answers a failed call or a 2xx body that does not decode; a request gets
\* one response, never more.
C11_ProxyAnswers ==
  /\ Len(proxyRes) <= 1
  /\ proxyPc \in {"fetching", "decoding"} => proxyRes = <<>>
  /\ ProxyDone =>
       /\ Len(proxyRes) = 1
       /\ LET up  == proxyUp
              res == proxyRes[1]
              twoxx == up.kind = "response" /\ up.status >= 200 /\ up.status < 300
          IN  /\ (twoxx /\ up.decodable) => res.status = 200 /\ res.body = up.body
              /\ (up.kind = "response" /\ ~twoxx) =>
                   /\ res.status = up.status
                   /\ res.body.type = "object"
                   /\ res.body.message.text = "External API error: "
                   /\ res.body.message.status = up.status
                   /\ res.body.message.statusText = up.statusText
              /\ (up.kind = "network_error" \/ (twoxx /\ ~up.decodable)) =>
                   /\ res.status = 500
                   /\ res.body.type = "object"
                   /\ res.body.message.text = "Failed to fetch data from external API"

\* The data source answered 201 with two records: the proxy answered 200
\* with them.
C11_Witness ==
  /\ ProxyDone
  /\ proxyUp.status = 201
  /\ proxyUp.decodable
  /\ Len(proxyUp.body.items) = 2
  /\ proxyRes = <<[status |-> 200, body |-> proxyUp.body]>>

\* A call of queryFn made while the data source is failing settles in this
\* step: the fetch goes on to its next attempt, or ends.
FailedAttemptSettles ==
  /\ fetching
  /\ health # "ok"
  /\ health' = health
  /\ \/ attempts' = attempts + 1
     \/ ~fetching'

\* C12: when a fetch fails, because the data source is unreachable or answers
\* with a non-2xx status, no record sequence comes out of it and nothing is
\* derived from it: the records and every derived value stay as they were.
\* When the fetch ends the query is in error and the component shows the
\* error card, whose Retry button starts a new fetch.
C12_FailedFetchLeavesDataAndShowsError ==
  /\ [][FailedAttemptSettles =>
          /\ logs' = logs
          /\ derived' = derived
          /\ ~fetching' => (status' = "error" /\ screen' = "error")]_vars
  /\ [](screen = "error" /\ dataUpdateCount < MaxFetches => ENABLED RetryClick)
  /\ [][screen = "error" /\ fetching' /\ attempts' = 1 /\ upstream' = upstream
          => (screen' = (IF hasData THEN "error" ELSE "skeleton") /\ logs' = logs)]_vars

\* The fetch of an unreachable source that holds records has ended after four
\* calls; no record was ever loaded and the error card is shown.
C12_Witness ==
  /\ screen = "error"
  /\ status = "error"
  /\ health = "unreachable"
  /\ ~fetching
  /\ attempts = retry + 1
  /\ ~hasData
  /\ Len(upstream) > 0
  /\ logs = <<>>
  /\ stats = StatsOf(<<>>)

\* The query holds the data of a successful fetch, and one of its records has
\* a created_at that is no timestamp.
MalformedLoaded ==
  /\ status = "success"
  /\ \E i \in 1..Len(logs) : ~Parseable(logs[i].created_at)

\* C13: a record whose created_at cannot be parsed does not bring the
\* component down silently: the failure is reported to the user, and the
\* report is not the error card of an unavailable data source.  Stated by what
\* it needs at least: with such a record loaded the page is not blank and does
\* not show the error card.
C13_MalformedRecordIsReported ==
  MalformedLoaded => (screen # "blank" /\ screen # "error")

\* The fetch brought a well-formed record and a malformed one, and the page
\* went blank with the zero values of before the fetch never replaced.
C13_Witness ==
  /\ MalformedLoaded
  /\ Len(logs) = 2
  /\ screen = "blank"
  /\ ~fetching
  /\ stats = StatsOf(<<>>)

\* C14: a failing fetch is retried 3 times after its first attempt and then
\* gives up: no fetch ever makes more than 4 calls of queryFn, the query goes
\* into error exactly at the failure of the fourth, and while the data source
\* keeps failing a loading dashboard always ends up in the error state.
C14_BoundedRetryThenError ==
  /\ [](attempts <= 4)
  /\ [][(status # "error" /\ status' = "error") => (attempts = 4 /\ attempts' = 4)]_vars
  /\ [](fetching /\ health # "ok" /\ screen = "skeleton"
          => <>(status = "error" /\ screen = "error" /\ ~fetching))

\* A source answering with a non-2xx status: the fetch has given up after its
\* fourth call and the error card is shown.
C14_Witness ==
  /\ health = "non2xx"
  /\ status = "error"
  /\ screen = "error"
  /\ attempts = 4
  /\ ~fetching
  /\ ~hasData

\* C15: whatever fetches, refetches and search-term changes came before, the
\* dashboard displays, for each derived value, the result of computing it
\* from scratch on the current records and the current search term; and the
\* current records are those the latest successful fetch brought.
C15_DisplayedValuesAreFromScratch ==
  /\ [](screen = "dashboard" =>
          /\ filteredLogs = FilteredLogsOf(logs, searchTerm)
          /\ stats = StatsOf(logs)
          /\ chartData = ChartDataOf(logs))
  /\ [][(fetching /\ ~fetching' /\ status' = "success") => logs' = upstream]_vars

\* After a second successful fetch and with a search term typed in that keeps
\* some of the records and drops others, the dashboard is displayed.
C15_Witness ==
  /\ screen = "dashboard"
  /\ dataUpdateCount = 2
  /\ ~fetching
  /\ logs = upstream
  /\ searchTerm # <<>>
  /\ Len(filteredLogs) > 0
  /\ Len(filteredLogs) < Len(logs)
  /\ stats.accepted + stats.declined > 0
====
